---- MODULE Spec2Model ----
(***************************************************************************)
(* State-machine model of the FeathersJS Couchbase service                 *)
(* (lib/service/couchbase.service.js).  A call of a public operation is a  *)
(* record in a slot; every request to the bucket is issued in one step and *)
(* answered (store effect plus the code of the callback) in another.       *)
(***************************************************************************)
EXTENDS Integers, Sequences, FiniteSets, TLC

\* ------------------------------------------------------------ bounds
MaxUuid == 2

\* ------------------------------------------------------ configuration
name == "users"
separator == "::"
idField == "uuid"
bucketName == "testbucket"

\* --------------------------------------------------------- JS values
\* Every JavaScript value is a function on strings, so that any two compare.
Null == [isNull |-> TRUE]
Undefined == [isUndefined |-> TRUE]
Err(kind) == [error |-> kind]
BadRequest == Err("BadRequest")
NotFound == Err("NotFound")
TypeError == Err("TypeError")
keyNotFound == "keyNotFound"
keyAlreadyExists == "keyAlreadyExists"
CouchbaseError(code) == [error |-> "CouchbaseError", code |-> code]
RemoveAck == [cas |-> "cas"]
\* A JavaScript array.
Array(elements) == [array |-> elements]

Truthy(v) == v # Null /\ v # Undefined

\* v === null
EqNull_m(v) == v = Null

\* v == null
EqNull(v) == v = Null \/ v = Undefined

\* Object.assign(target, source): a null or undefined source is skipped.
Assign(target, source) ==
    IF source = Null \/ source = Undefined THEN target
    ELSE [k \in DOMAIN target \cup DOMAIN source |->
             IF k \in DOMAIN source THEN source[k] ELSE target[k]]

\* ----------------------------------------------------------- promises
Pending == [status |-> "pending", value |-> Undefined]

Resolve(p, v) ==
    IF p.status = "pending" THEN [status |-> "resolved", value |-> v] ELSE p

Reject(p, e) ==
    IF p.status = "pending" THEN [status |-> "rejected", value |-> e] ELSE p

\* resolve(q) with q a settled promise: p takes q's state.
Adopt(p, q) ==
    IF p.status = "pending" THEN q ELSE p

\* ------------------------------------------------------------ KeyCodec
\* _key with the parts joined by nothing.
_key_m(key) == name \o key

_key(key) == name \o separator \o key

uuid(n) == "g" \o ToString(n + 1)

\* _id(data): the id of data, and data with a generated id when it had none.
_id(data, n) ==
    IF idField \in DOMAIN data
    THEN [id |-> data[idField], data |-> data, n |-> n]
    ELSE [id |-> uuid(n), data |-> Assign(data, (idField :> uuid(n))), n |-> n + 1]

\* ------------------------------------------------------------- state
VARIABLES
    store,      \* the bucket: key -> document
    paginate,   \* this.paginate, fixed at construction
    calls,      \* slot -> the call of a public operation in that slot
    nUuid       \* how many ids uuid() has generated

vars == <<store, paginate, calls, nUuid>>

Slots == {1, 2}
SeqSlots == {1}

NoReq == [kind |-> "none"]

Idle ==
    [op |-> "none", id |-> "", data |-> Undefined, params |-> Undefined,
     pre |-> Undefined, before |-> Undefined, pc |-> "idle", req |-> NoReq, obj |-> Undefined,
     promise |-> Pending, issued |-> <<>>, ans |-> Undefined, answers |-> <<>>,
     thrown |-> FALSE, prev |-> Undefined]

WriteOps == {"create", "update", "patch", "remove"}

\* ------------------------------------------------------------- inputs
CallerIds == {"i1"}

KnownIds == CallerIds \cup {uuid(k) : k \in 0..(nUuid - 1)}

Datas ==
    { Null,
      [a |-> "1"],
      [a |-> "2", _type |-> "x"],
      [uuid |-> "i1", b |-> "2"] }

\* A call as it starts.  pre is the document at the key of id (Null when there
\* is none) and before the documents of the bucket, both at that moment.
Stored(id) == IF _key(id) \in DOMAIN store THEN store[_key(id)] ELSE Null

Begin(op, id, data) ==
    [Idle EXCEPT !.op = op, !.id = id, !.data = data, !.pre = Stored(id),
                 !.before = store]

\* The call issues a request to the bucket and waits for its answer at pc.
Issue(call, pc, req) ==
    [call EXCEPT !.pc = pc, !.req = req, !.issued = Append(@, req)]

\* The bucket answers the request the call waits for: ans is that answer and
\* answers the (err, result) of every answer so far, in the order of issued.
Answered(call, a) ==
    [call EXCEPT !.ans = a, !.answers = Append(@, [err |-> a.err, res |-> a.res])]

Settled(call, p) ==
    [call EXCEPT !.pc = "done", !.req = NoReq, !.promise = p]

\* The promise the caller holds is never settled: no request is outstanding.
Hung(call) ==
    [call EXCEPT !.pc = "hung", !.req = NoReq]

\* -------------------------------------------------------------- store
networkError == "networkError"

Row1 == [foo |-> "bar", bar |-> "foo"]
Row2 == [foo |-> "bar"]
ResultSets == {<<>>, <<Row1>>, <<Row1, Row2>>}

Without(docs, key) == [k \in DOMAIN docs \ {key} |-> docs[k]]

\* What the bucket does with a request: the callback's (err, result) and the
\* documents afterwards.  A get of a missing key is answered with a
\* missing-key error or with an empty result; a query with any rows and a
\* count of at least as many.
Served(req) ==
    CASE req.kind = "get" ->
           IF req.key \in DOMAIN store
           THEN {[err |-> Null, res |-> [value |-> store[req.key]], store |-> store]}
           ELSE {[err |-> CouchbaseError(keyNotFound), res |-> Undefined, store |-> store],
                 [err |-> Null, res |-> Null, store |-> store]}
      [] req.kind = "insert" ->
           IF req.key \in DOMAIN store
           THEN {[err |-> CouchbaseError(keyAlreadyExists), res |-> Undefined, store |-> store]}
           ELSE {[err |-> Null, res |-> RemoveAck, store |-> (req.key :> req.value) @@ store]}
      [] req.kind = "replace" ->
           IF req.key \in DOMAIN store
           THEN {[err |-> Null, res |-> RemoveAck,
                  store |-> [store EXCEPT ![req.key] = req.value]]}
           ELSE {[err |-> CouchbaseError(keyNotFound), res |-> Undefined, store |-> store]}
      [] req.kind = "remove" ->
           IF req.key \in DOMAIN store
           THEN {[err |-> Null, res |-> RemoveAck, store |-> Without(store, req.key)]}
           ELSE {[err |-> CouchbaseError(keyNotFound), res |-> Undefined, store |-> store]}
      [] req.kind = "query" ->
           {[err |-> Null, res |-> Array(rows), store |-> store,
             meta |-> [metrics |-> [resultCount |-> Len(rows) + more]]] :
               rows \in ResultSets, more \in {0, 1}}

\* A request that fails for a reason of the bucket's own changes nothing.
Failed(req) ==
    {[err |-> CouchbaseError(networkError), res |-> Undefined, store |-> store,
      meta |-> Undefined]}

\* The answers to a request, of a bucket that may (faulty) or may not fail.
Answers(req, faulty) ==
    Served(req) \cup (IF faulty THEN Failed(req) ELSE {})

\* ---------------------------------------------------------------- get
\* GetCallback passing every error on as it is.
GetCallback_m(err, element) ==
    IF Truthy(err)
    THEN [promise |-> Reject(Pending, err), thrown |-> FALSE]
    ELSE IF element = Null \/ element = Undefined
         THEN [promise |-> Reject(Pending, NotFound), thrown |-> TRUE]
         ELSE [promise |-> Resolve(Pending,
                              IF Truthy(element.value) THEN element.value ELSE element),
               thrown |-> FALSE]

\* GetCallback resolving with an empty result.
GetCallback_e(err, element) ==
    IF Truthy(err)
    THEN LET p1 == IF "code" \in DOMAIN err /\ err.code = keyNotFound
                   THEN Reject(Pending, NotFound) ELSE Pending
         IN  [promise |-> Reject(p1, err), thrown |-> FALSE]
    ELSE [promise |-> Resolve(Pending,
                         IF element = Null \/ element = Undefined THEN Null
                         ELSE IF Truthy(element.value) THEN element.value ELSE element),
          thrown |-> FALSE]

\* The callback of bucket.get inside get(id): the promise it settles, and
\* whether an exception escaped the callback.
GetCallback(err, element) ==
    IF Truthy(err)
    THEN LET p1 == IF "code" \in DOMAIN err /\ err.code = keyNotFound
                   THEN Reject(Pending, NotFound) ELSE Pending
         IN  [promise |-> Reject(p1, err), thrown |-> FALSE]
    ELSE IF element = Null \/ element = Undefined
         THEN [promise |-> Reject(Pending, NotFound), thrown |-> TRUE]
         ELSE [promise |-> Resolve(Pending,
                              IF Truthy(element.value) THEN element.value ELSE element),
               thrown |-> FALSE]

GetRequest(id) == [kind |-> "get", key |-> _key(id)]

get(S) ==
    \E c \in S, id \in KnownIds :
        /\ calls[c].pc = "idle"
        /\ calls' = [calls EXCEPT ![c] = Issue(Begin("get", id, Undefined), "get", GetRequest(id))]
        /\ UNCHANGED <<store, paginate, nUuid>>

\* The answer to the only request of get(id) and to the last request of
\* create, update and patch, each of which ends with this.get(id).
\* update resolves only through patch(...).then(r => resolve(r)).
getDone(S, faulty) ==
    \E c \in S :
        /\ calls[c].pc \in {"get", "get2"}
        /\ \E a \in Answers(calls[c].req, faulty) :
             LET g == GetCallback(a.err, a.res)
                 call == [Answered(calls[c], a) EXCEPT !.thrown = @ \/ g.thrown]
             IN  /\ store' = a.store
                 /\ calls' = [calls EXCEPT ![c] =
                       IF call.op = "update" /\ g.promise.status = "rejected"
                       THEN Hung(call)
                       ELSE Settled(call, Adopt(call.promise, g.promise))]
        /\ UNCHANGED <<paginate, nUuid>>

\* ------------------------------------------------------------- create
create(S) ==
    \E c \in S, data \in Datas :
        /\ calls[c].pc = "idle"
        /\ IF EqNull(data)
           THEN \* reject(BadRequest), then data._type throws inside the executor
                /\ calls' = [calls EXCEPT ![c] =
                      Settled(Begin("create", "", data),
                              Reject(Reject(Pending, BadRequest), TypeError))]
                /\ UNCHANGED nUuid
           ELSE /\ idField \notin DOMAIN data => nUuid < MaxUuid
                /\ LET i == _id(Assign(data, [_type |-> name]), nUuid)
                       call == [Begin("create", i.id, data) EXCEPT !.obj = i.data]
                   IN  /\ calls' = [calls EXCEPT ![c] =
                             Issue(call, "insert",
                                   [kind |-> "insert", key |-> _key(i.id), value |-> i.data])]
                       /\ nUuid' = i.n
        /\ UNCHANGED <<store, paginate>>

\* The insert callback ignores err: resolve(this.get(this._id(data), params)).
insertDone(S, faulty) ==
    \E c \in S :
        /\ calls[c].pc = "insert"
        /\ \E a \in Answers(calls[c].req, faulty) :
             /\ store' = a.store
             /\ calls' = [calls EXCEPT ![c] =
                   Issue(Answered(calls[c], a), "get2",
                         GetRequest(calls[c].obj[idField]))]
        /\ UNCHANGED <<paginate, nUuid>>

\* ------------------------------------------------------- patch, update
\* patch replacing at once, without the get before it.
patch_m(S) ==
    \E c \in S, id \in KnownIds, data \in Datas :
        /\ calls[c].pc = "idle"
        /\ calls' = [calls EXCEPT ![c] =
              Issue(Begin("patch", id, data), "replace",
                    [kind |-> "replace", key |-> _key(id),
                     value |-> Assign(data, [_type |-> name])])]
        /\ UNCHANGED <<store, paginate, nUuid>>

patch(S) ==
    \E c \in S, id \in KnownIds, data \in Datas :
        /\ calls[c].pc = "idle"
        /\ calls' = [calls EXCEPT ![c] = Issue(Begin("patch", id, data), "get1", GetRequest(id))]
        /\ UNCHANGED <<store, paginate, nUuid>>

update(S) ==
    \E c \in S, id \in KnownIds, data \in Datas :
        /\ calls[c].pc = "idle"
        /\ calls' = [calls EXCEPT ![c] = Issue(Begin("update", id, data), "get1", GetRequest(id))]
        /\ UNCHANGED <<store, paginate, nUuid>>

\* Merged leaving _type as the data has it.
Merged_t(_obj, data) == Assign(_obj, data)

\* Merged without the stored entity: the data replaces it.
Merged_r(_obj, data) == Assign(Assign([k \in {} |-> Null], data), [_type |-> name])

\* Merged with the stored entity laid over the data.
Merged_m(_obj, data) == Assign(Assign(data, _obj), [_type |-> name])

\* Object.assign(Object.assign(_obj, data), { _type: this.opts.name })
Merged(_obj, data) == Assign(Assign(_obj, data), [_type |-> name])

\* The key remove deletes: this._key(this._id(data)) of the document read.
RemoveKey(data, n) == _key(_id(data, n).id)

\* The answer to the first get of patch, update and remove.  A failed get
\* leaves patch (and update) with a promise nothing settles; remove adopts it.
get1Done(S, faulty) ==
    \E c \in S :
        /\ calls[c].pc = "get1"
        /\ \E a \in Answers(calls[c].req, faulty) :
             LET g == GetCallback(a.err, a.res)
                 call == [Answered(calls[c], a) EXCEPT !.thrown = @ \/ g.thrown]
             IN  /\ store' = a.store
                 /\ IF g.promise.status = "rejected"
                    THEN /\ calls' = [calls EXCEPT ![c] =
                               IF call.op = "remove"
                               THEN Settled(call, Adopt(call.promise, g.promise))
                               ELSE Hung(call)]
                         /\ UNCHANGED nUuid
                    ELSE IF call.op = "remove"
                    THEN /\ idField \notin DOMAIN g.promise.value => nUuid < MaxUuid
                         /\ calls' = [calls EXCEPT ![c] =
                               Issue([call EXCEPT !.obj = g.promise.value], "remove",
                                     [kind |-> "remove",
                                      key |-> RemoveKey(g.promise.value, nUuid)])]
                         /\ nUuid' = _id(g.promise.value, nUuid).n
                    ELSE /\ calls' = [calls EXCEPT ![c] =
                               Issue([call EXCEPT !.obj = Merged(g.promise.value, call.data)],
                                     "replace",
                                     [kind |-> "replace", key |-> _key(call.id),
                                      value |-> Merged(g.promise.value, call.data)])]
                         /\ UNCHANGED nUuid
        /\ UNCHANGED paginate

\* The replace callback ignores err: resolve(this.get(id, params)).
replaceDone(S, faulty) ==
    \E c \in S :
        /\ calls[c].pc = "replace"
        /\ \E a \in Answers(calls[c].req, faulty) :
             /\ store' = a.store
             /\ calls' = [calls EXCEPT ![c] =
                   Issue(Answered(calls[c], a), "get2", GetRequest(calls[c].id))]
        /\ UNCHANGED <<paginate, nUuid>>

\* ------------------------------------------------------------- remove
remove(S) ==
    \E c \in S, id \in KnownIds :
        /\ calls[c].pc = "idle"
        /\ calls' = [calls EXCEPT ![c] =
              Issue(Begin("remove", id, Undefined), "get1", GetRequest(id))]
        /\ UNCHANGED <<store, paginate, nUuid>>

\* bucket.remove(key) is called without a callback and its result is what the
\* promise chain, and so remove, settles with: the bucket's acknowledgement
\* once the key is removed, or the bucket's error.
removeDone(S, faulty) ==
    \E c \in S :
        /\ calls[c].pc = "remove"
        /\ \E a \in Answers(calls[c].req, faulty) :
             /\ store' = a.store
             /\ calls' = [calls EXCEPT ![c] =
                   Settled(Answered(calls[c], a),
                           IF Truthy(a.err) THEN Reject(calls[c].promise, a.err)
                           ELSE Resolve(calls[c].promise, a.res))]
        /\ UNCHANGED <<paginate, nUuid>>

\* --------------------------------------------------------------- find
Str(s) == [str |-> s]

\* lib/querybuilder: the consistency symbols a query may carry.
QueryConsistency ==
    [NOT_BOUNDED |-> Str("NOT_BOUNDED"), REQUEST_PLUS |-> Str("REQUEST_PLUS"),
     STATEMENT_PLUS |-> Str("STATEMENT_PLUS")]

\* couchbase.N1qlQuery.Consistency
N1qlConsistency ==
    [NOT_BOUNDED |-> "N1QL.NOT_BOUNDED", REQUEST_PLUS |-> "N1QL.REQUEST_PLUS",
     STATEMENT_PLUS |-> "N1QL.STATEMENT_PLUS"]

\* _buildN1QL taking REQUEST_PLUS for STATEMENT_PLUS.
_buildN1QL_m(str, consistency, readonly) ==
    [statement |-> str,
     consistency |->
        IF consistency = QueryConsistency.NOT_BOUNDED THEN {N1qlConsistency.NOT_BOUNDED}
        ELSE IF consistency = QueryConsistency.REQUEST_PLUS THEN {N1qlConsistency.STATEMENT_PLUS}
        ELSE IF consistency = QueryConsistency.STATEMENT_PLUS THEN {N1qlConsistency.STATEMENT_PLUS}
        ELSE {},
     readonly |-> readonly]

\* The N1QL query object: consistency holds the argument of each call of
\* $query.consistency(...), none when it was never called.
_buildN1QL(str, consistency, readonly) ==
    [statement |-> str,
     consistency |->
        IF consistency = QueryConsistency.NOT_BOUNDED THEN {N1qlConsistency.NOT_BOUNDED}
        ELSE IF consistency = QueryConsistency.REQUEST_PLUS THEN {N1qlConsistency.REQUEST_PLUS}
        ELSE IF consistency = QueryConsistency.STATEMENT_PLUS THEN {N1qlConsistency.STATEMENT_PLUS}
        ELSE {},
     readonly |-> readonly]

Directives == {"$limit", "$skip", "$select", "$sort", "$consistency"}

Delete(obj, key) == [k \in DOMAIN obj \ {key} |-> obj[k]]

\* obj[key], as the set of its values: empty when obj has no such key.
Field(obj, key) == IF key \in DOMAIN obj THEN {obj[key]} ELSE {}

\* QueryBuilder.interpret(query): the statement and its bound values.  The
\* predicates are the keys that are no directive; $limit and $skip are part of
\* the statement; $select and $consistency are not.
Interpret(query) ==
    [query |-> [from |-> bucketName,
                where |-> DOMAIN query \ Directives,
                limit |-> Field(query, "$limit"),
                offset |-> Field(query, "$skip")],
     values |-> [k \in DOMAIN query \ Directives |-> query[k]]]

\* R.clamp(min, max)(value), max being paginate.max or undefined: throws when
\* min > max, and every comparison with undefined is false.
ClampThrows(min, max) == \E m \in max : min > m

\* clamp without the upper end.
clamp_m(min, max, value) == IF value < min THEN min ELSE value

clamp(min, max, value) ==
    IF value < min THEN min
    ELSE IF \E m \in max : value > m THEN CHOOSE m \in max : TRUE
    ELSE value

\* if ('default' in paginate)
HasDefault_m(pg) == "default" \in DOMAIN pg

\* if (paginate.default)
HasDefault(pg) == "default" \in DOMAIN pg /\ pg["default"] # 0

\* selected.indexOf(key) is not -1
Selects(selected, key) == \E i \in 1..Len(selected) : selected[i] = key

_stripKeys(selected, results) ==
    Array([i \in 1..Len(results.array) |->
        [key \in {k \in DOMAIN results.array[i] : Selects(selected, k)} |->
            results.array[i][key]]])

\* _find(query, paginate, consistency) up to bucket.query(...)
_find(call, query, pg, consistency) ==
    LET compiled == Interpret(query)
        selected == IF "$select" \in DOMAIN query THEN query["$select"] ELSE <<>>
    IN  Issue([call EXCEPT !.obj = [interpreted |-> query,
                                    query |-> Delete(query, "$select"),
                                    paginate |-> pg,
                                    selected |-> selected]],
              "query",
              [kind |-> "query",
               n1ql |-> _buildN1QL(compiled.query, consistency, TRUE),
               values |-> compiled.values])

\* find(params) up to the call of _find.  A reject is followed by the rest of
\* the executor, which throws on the missing params or query.
FindStart(call) ==
    LET params == call.params
        query == IF "query" \in DOMAIN params THEN params.query ELSE Undefined
        pg == IF "paginate" \in DOMAIN params THEN params.paginate ELSE paginate
        q1 == Assign(query, [_type |-> name])
        limit == IF "$limit" \in DOMAIN q1 THEN q1["$limit"] ELSE pg["default"]
        q2 == IF HasDefault(pg)
              THEN Assign(q1, ("$limit" :> clamp(0, Field(pg, "max"), limit)))
              ELSE q1
        consistency == IF "$consistency" \in DOMAIN q2 THEN q2["$consistency"] ELSE Undefined
    IN  IF EqNull(params)
        THEN Settled(call, Reject(Reject(Pending, BadRequest), TypeError))
        ELSE IF EqNull(query)
        THEN Settled(call, Reject(Reject(Pending, BadRequest), TypeError))
        ELSE IF HasDefault(pg) /\ ClampThrows(0, Field(pg, "max"))
        THEN Settled(call, Reject(Pending, Err("Error")))
        ELSE _find(call, Delete(q2, "$consistency"), pg, consistency)

find(S, P) ==
    \E c \in S, params \in P :
        /\ calls[c].pc = "idle"
        /\ calls' = [calls EXCEPT ![c] =
              FindStart([Begin("find", "", Undefined) EXCEPT !.params = params])]
        /\ UNCHANGED <<store, paginate, nUuid>>

\* The callback of bucket.query inside _find: the promise of _find, and
\* whether an exception escaped the callback.  err is not looked at; with an
\* error the bucket passes neither results nor queryData.
QueryCallback(call, err, results, queryData) ==
    LET selected == call.obj.selected
        query == call.obj.query
        rows == IF Len(selected) > 0 THEN _stripKeys(selected, results) ELSE results
        p1 == IF ~HasDefault(call.obj.paginate)
              THEN Resolve(Pending, IF Truthy(err) THEN Undefined ELSE rows)
              ELSE Pending
    IN  IF Truthy(err) /\ Len(selected) > 0
        THEN [promise |-> Pending, thrown |-> TRUE]
        ELSE IF Truthy(err)
        THEN [promise |-> p1, thrown |-> TRUE]
        ELSE IF p1.status # "pending"
        THEN [promise |-> p1, thrown |-> FALSE]
        ELSE [promise |->
                 Resolve(p1, [total |-> queryData.metrics.resultCount,
                              limit |-> query["$limit"],
                              skip |-> IF "$skip" \in DOMAIN query THEN query["$skip"] ELSE 0,
                              data |-> rows]),
              thrown |-> FALSE]

\* this._find(...).then(r => resolve(r)): find settles when _find resolves.
\* (The source writes the handler "(r) = {"; it is read as the arrow function.)
queryDone(S, faulty) ==
    \E c \in S :
        /\ calls[c].pc = "query"
        /\ \E a \in Answers(calls[c].req, faulty) :
             LET f == QueryCallback(calls[c], a.err, a.res, a.meta)
                 call == [Answered(calls[c], a) EXCEPT !.thrown = @ \/ f.thrown]
             IN  calls' = [calls EXCEPT ![c] =
                     IF f.promise.status = "resolved"
                     THEN Settled(call, Resolve(call.promise, f.promise.value))
                     ELSE Hung(call)]
        /\ UNCHANGED <<store, paginate, nUuid>>

\* ------------------------------------------------------------- caller
\* What a caller keeps of a settled call when it goes on with a get.
Summary(call) ==
    [op |-> call.op, id |-> call.id, data |-> call.data, pre |-> call.pre,
     promise |-> call.promise]

\* The ids a caller reads next: the id it passed, or the id of the entity returned.
FollowIds(call) ==
    (IF call.id # "" THEN {call.id} ELSE {})
    \cup (IF call.promise.status = "resolved" /\ idField \in DOMAIN call.promise.value
          THEN {call.promise.value[idField]} ELSE {})

\* op(...).then(() => service.get(id)): a get right after a settled call.
thenGet(S) ==
    \E c \in S :
        /\ calls[c].pc = "done"
        /\ calls[c].op \in WriteOps
        /\ \E id \in FollowIds(calls[c]) :
             calls' = [calls EXCEPT ![c] =
                 Issue([Begin("get", id, Undefined) EXCEPT !.prev = Summary(calls[c])],
                       "get", GetRequest(id))]
        /\ UNCHANGED <<store, paginate, nUuid>>

\* The caller is done with a call (settled, or abandoned as hung).
Return(S) ==
    \E c \in S :
        /\ calls[c].pc \in {"done", "hung"}
        /\ calls' = [calls EXCEPT ![c] = Idle]
        /\ UNCHANGED <<store, paginate, nUuid>>

\* ------------------------------------------------------ specification
\* What find is called with.
Opt(key, values) == [k \in {key : v \in values} |-> CHOOSE v \in values : TRUE]

PaginateConfigs ==
    { [k \in {} |-> 0],
      ("default" :> 0 @@ "max" :> 2),
      ("default" :> 1 @@ "max" :> 2),
      ("default" :> 2 @@ "max" :> 1),
      ("default" :> 1),
      ("default" :> 1 @@ "max" :> -1) }

Queries ==
    { [foo |-> "bar"] @@ Opt("$limit", l) @@ Opt("$skip", k) @@ Opt("$select", s)
        @@ Opt("$consistency", y) :
        l \in {{}, {-1}, {0}, {1}, {3}},
        k \in {{}, {2}},
        s \in {{}, {<<>>}, {<<"foo">>}, {<<"bar", "baz">>}},
        y \in {{}, {QueryConsistency.NOT_BOUNDED}, {QueryConsistency.REQUEST_PLUS},
               {QueryConsistency.STATEMENT_PLUS}, {Str("BOGUS")}} }

FindParams ==
    {Undefined, [k \in {} |-> 0]}
    \cup { [query |-> q] @@ Opt("paginate", pg) :
             q \in Queries,
             pg \in {{}, {[k \in {} |-> 0]}, {("default" :> 1 @@ "max" :> 2)},
                     {("default" :> 0 @@ "max" :> 2)}} }

SomeFindParams ==
    {Undefined, [k \in {} |-> 0], [query |-> [foo |-> "bar"]]}

Init ==
    /\ store = [k \in {} |-> Null]
    /\ paginate = [k \in {} |-> 0]
    /\ calls = [c \in Slots |-> Idle]
    /\ nUuid = 0

Next ==
    \/ get(SeqSlots)
    \/ getDone(SeqSlots, FALSE)
    \/ create(SeqSlots)
    \/ insertDone(SeqSlots, FALSE)
    \/ patch(SeqSlots)
    \/ update(SeqSlots)
    \/ get1Done(SeqSlots, FALSE)
    \/ replaceDone(SeqSlots, FALSE)
    \/ remove(SeqSlots)
    \/ removeDone(SeqSlots, FALSE)
    \/ find(SeqSlots, SomeFindParams)
    \/ queryDone(SeqSlots, FALSE)
    \/ thenGet(SeqSlots)
    \/ Return(SeqSlots)

Spec == Init /\ [][Next]_vars

\* find over every shape of params and every pagination configuration.
InitFind ==
    /\ store = [k \in {} |-> Null]
    /\ paginate \in PaginateConfigs
    /\ calls = [c \in Slots |-> Idle]
    /\ nUuid = 0

NextFind ==
    \/ find(SeqSlots, FindParams)
    \/ queryDone(SeqSlots, FALSE)
    \/ Return(SeqSlots)

SpecFind == InitFind /\ [][NextFind]_vars

\* Every operation, against a bucket that may fail any request.
NextFault ==
    \/ get(SeqSlots)
    \/ getDone(SeqSlots, TRUE)
    \/ create(SeqSlots)
    \/ insertDone(SeqSlots, TRUE)
    \/ patch(SeqSlots)
    \/ update(SeqSlots)
    \/ get1Done(SeqSlots, TRUE)
    \/ replaceDone(SeqSlots, TRUE)
    \/ remove(SeqSlots)
    \/ removeDone(SeqSlots, TRUE)
    \/ find(SeqSlots, SomeFindParams)
    \/ queryDone(SeqSlots, TRUE)
    \/ thenGet(SeqSlots)
    \/ Return(SeqSlots)

SpecFault == Init /\ [][NextFault]_vars

\* The entity create(data) writes, the n-th generated id being its id when
\* data has none.
Created(data, n) == _id(Assign(data, [_type |-> name]), n).data

\* Buckets that earlier calls of create have left: empty, one entity created
\* with an id of the caller's, one entity created with a generated id.
StoresConc ==
    { [docs |-> [k \in {} |-> Null], n |-> 0],
      [docs |-> (_key("i1") :> Created([uuid |-> "i1", b |-> "2"], 0)), n |-> 0],
      [docs |-> (_key(uuid(0)) :> Created([a |-> "1"], 0)), n |-> 1] }

InitConc ==
    \E s \in StoresConc :
        /\ store = s.docs
        /\ nUuid = s.n
        /\ paginate = [k \in {} |-> 0]
        /\ calls = [c \in Slots |-> Idle]

\* Two calls of the writing operations at the same time: each slot makes one
\* call, started at any moment, and the bucket answers the outstanding
\* requests in any order.
NextConc ==
    \/ create(Slots)
    \/ insertDone(Slots, FALSE)
    \/ patch(Slots)
    \/ update(Slots)
    \/ get1Done(Slots, FALSE)
    \/ replaceDone(Slots, FALSE)
    \/ remove(Slots)
    \/ removeDone(Slots, FALSE)
    \/ getDone(Slots, FALSE)

SpecConc == InitConc /\ [][NextConc]_vars

\* ------------------------------------------------------------- claims
\* The keys of data D, none when D is null.
Keys(D) == IF D = Null \/ D = Undefined THEN {} ELSE DOMAIN D

\* A get that a caller made right after a settled call of op, and that settled.
GotAfter(c, op) ==
    /\ calls[c].op = "get"
    /\ calls[c].pc = "done"
    /\ calls[c].prev # Undefined
    /\ calls[c].prev.op = op

\* C1's case: create of an entity without the id field resolved, then get of
\* the id of the returned entity.
C1_Case(c) ==
    /\ GotAfter(c, "create")
    /\ calls[c].prev.data # Null
    /\ idField \notin DOMAIN calls[c].prev.data
    /\ calls[c].prev.promise.status = "resolved"
    /\ calls[c].id = calls[c].prev.promise.value[idField]

\* The input plus the id field and _type set to the collection name.
C1_Expected(data, id) ==
    [k \in DOMAIN data \cup {idField, "_type"} |->
        IF k = idField THEN id ELSE IF k = "_type" THEN name ELSE data[k]]

\* C1: create of an entity that lacks the id field, then get on the id of the
\* returned entity, yields the input plus a generated id field and _type set
\* to the collection name, and the entity is stored at key name+separator+id.
C1_CreateReadRoundTrip ==
    \A c \in Slots :
        C1_Case(c) =>
            LET id == calls[c].id
                key == name \o separator \o id
            IN  /\ id \notin CallerIds
                /\ calls[c].promise.status = "resolved"
                /\ calls[c].promise.value = C1_Expected(calls[c].prev.data, id)
                /\ calls[c].prev.promise.value = calls[c].promise.value
                /\ key \in DOMAIN store
                /\ store[key] = calls[c].promise.value

C1_Witness ==
    \E c \in Slots :
        /\ C1_Case(c)
        /\ "_type" \in DOMAIN calls[c].prev.data
        /\ calls[c].promise.status = "resolved"

\* C2's case: patch(id, D) of a stored entity, then get(id).
C2_Case(c) ==
    /\ GotAfter(c, "patch")
    /\ calls[c].prev.pre # Null
    /\ calls[c].id = calls[c].prev.id

\* The shallow merge of D over E with _type forced to the collection name.
C2_Expected(E, D) ==
    [k \in DOMAIN E \cup Keys(D) \cup {"_type"} |->
        IF k = "_type" THEN name ELSE IF k \in Keys(D) THEN D[k] ELSE E[k]]

\* C2: for a stored entity E at id and data D, patch(id, D) followed by get(id)
\* yields the shallow merge of D over E with _type forced to the collection
\* name: keys of D have D's value, keys of E not in D keep E's value.
C2_PatchMerge ==
    \A c \in Slots :
        C2_Case(c) =>
            /\ calls[c].prev.promise.status = "resolved"
            /\ calls[c].promise.status = "resolved"
            /\ calls[c].promise.value = C2_Expected(calls[c].prev.pre, calls[c].prev.data)

C2_Witness ==
    \E c \in Slots :
        /\ C2_Case(c)
        /\ calls[c].promise.status = "resolved"
        /\ \E k \in Keys(calls[c].prev.data) \cap DOMAIN calls[c].prev.pre :
              k # "_type" /\ calls[c].prev.data[k] # calls[c].prev.pre[k]
        /\ DOMAIN calls[c].prev.pre \ (Keys(calls[c].prev.data) \cup {"_type"}) # {}

\* C3: for an existing id, once remove(id) has resolved, a following get(id)
\* fails with NotFound.
C3_RemoveThenGet ==
    \A c \in Slots :
        ( /\ GotAfter(c, "remove")
          /\ calls[c].prev.pre # Null
          /\ calls[c].prev.promise.status = "resolved"
          /\ calls[c].id = calls[c].prev.id )
        => /\ calls[c].promise.status = "rejected"
           /\ calls[c].promise.value = NotFound

\* C4: find() with no params, find({}) with no query and create with absent
\* data each fail with BadRequest, and the call issues no request to the store.
C4_MissingInput ==
    \A c \in Slots :
        ( \/ /\ calls[c].op = "find"
             /\ (calls[c].params = Undefined \/ "query" \notin DOMAIN calls[c].params)
          \/ /\ calls[c].op = "create"
             /\ calls[c].data = Null )
        => /\ calls[c].pc = "done"
           /\ calls[c].promise = [status |-> "rejected", value |-> [error |-> "BadRequest"]]
           /\ calls[c].issued = <<>>
           /\ store = calls[c].before

C4_Witness ==
    \E c \in Slots :
        /\ calls[c].op = "find"
        /\ calls[c].params = [k \in {} |-> 0]
        /\ calls[c].promise.status = "rejected"

\* A find call that was given a query.
FindCase(c) ==
    /\ calls[c].op = "find"
    /\ calls[c].params # Undefined
    /\ "query" \in DOMAIN calls[c].params

\* The pagination configuration a find call goes by.
C5_Paginate(c) ==
    IF "paginate" \in DOMAIN calls[c].params THEN calls[c].params.paginate ELSE paginate

\* The requested $limit, or the default when the query has none.
C5_Requested(c) ==
    IF "$limit" \in DOMAIN calls[c].params.query
    THEN calls[c].params.query["$limit"]
    ELSE C5_Paginate(c)["default"]

C5_Clamped(v, max) == IF v < 0 THEN 0 ELSE IF v > max THEN max ELSE v

\* The limit compiled into the statement and returned in the envelope is lim.
C5_LimitIs(c, lim) ==
    /\ Len(calls[c].issued) = 1
    /\ "$limit" \in DOMAIN calls[c].obj.interpreted
    /\ calls[c].obj.interpreted["$limit"] = lim
    /\ calls[c].pc = "done" =>
          /\ calls[c].promise.status = "resolved"
          /\ "limit" \in DOMAIN calls[c].promise.value
          /\ calls[c].promise.value.limit = lim

\* C5 as claimed: whenever pagination is configured with a default, the limit
\* handed to statement compilation and the limit of the returned envelope are
\* the requested $limit (the default when absent) clamped to [0, paginate.max].
C5_ClampAnyDefault ==
    \A c \in Slots :
        ( /\ FindCase(c)
          /\ "default" \in DOMAIN C5_Paginate(c)
          /\ "max" \in DOMAIN C5_Paginate(c) )
        => C5_LimitIs(c, C5_Clamped(C5_Requested(c), C5_Paginate(c)["max"]))

\* C5, amended: whenever pagination is configured with a default other than 0
\* and a max of at least 0, the limit handed to statement compilation and the
\* limit of the returned envelope are the requested $limit (the default when
\* absent) clamped to [0, paginate.max].
C5_Clamp ==
    \A c \in Slots :
        ( /\ FindCase(c)
          /\ "default" \in DOMAIN C5_Paginate(c)
          /\ C5_Paginate(c)["default"] # 0
          /\ "max" \in DOMAIN C5_Paginate(c)
          /\ C5_Paginate(c)["max"] >= 0 )
        => C5_LimitIs(c, C5_Clamped(C5_Requested(c), C5_Paginate(c)["max"]))

C5_Witness ==
    \E c \in Slots :
        /\ FindCase(c)
        /\ C5_Paginate(c) = ("default" :> 1 @@ "max" :> 2)
        /\ "$limit" \in DOMAIN calls[c].params.query
        /\ calls[c].params.query["$limit"] = 3
        /\ calls[c].pc = "done"
        /\ "limit" \in DOMAIN calls[c].promise.value
        /\ calls[c].promise.value.limit = 2

\* A find call that resolved.
FoundCase(c) ==
    /\ FindCase(c)
    /\ calls[c].pc = "done"
    /\ calls[c].promise.status = "resolved"

\* The rows find resolves with: the store's, projected when fields are selected.
C6_Rows(c) ==
    IF Len(calls[c].obj.selected) > 0
    THEN _stripKeys(calls[c].obj.selected, calls[c].ans.res)
    ELSE calls[c].ans.res

C6_Envelope(c) ==
    /\ DOMAIN calls[c].promise.value = {"total", "limit", "skip", "data"}
    /\ calls[c].promise.value.total = calls[c].ans.meta.metrics.resultCount
    /\ calls[c].promise.value.skip =
          (IF "$skip" \in DOMAIN calls[c].params.query
           THEN calls[c].params.query["$skip"] ELSE 0)
    /\ calls[c].promise.value.data = C6_Rows(c)

\* C6 as claimed: a successful find resolves with the bare result sequence when
\* the effective pagination config has no default, and otherwise with an
\* envelope {total, limit, skip, data}: total the store's resultCount, skip the
\* query's $skip or 0, data the result rows.
C6_BareIffNoDefault ==
    \A c \in Slots :
        FoundCase(c) =>
            IF "default" \notin DOMAIN C5_Paginate(c)
            THEN calls[c].promise.value = C6_Rows(c)
            ELSE C6_Envelope(c)

\* C6, amended: a successful find resolves with the bare result sequence when
\* the effective pagination config has no default or a default of 0, and
\* otherwise with an envelope {total, limit, skip, data}: total the store's
\* resultCount, skip the query's $skip or 0, data the result rows.
C6_BareOrEnvelope ==
    \A c \in Slots :
        FoundCase(c) =>
            IF \/ "default" \notin DOMAIN C5_Paginate(c)
               \/ C5_Paginate(c)["default"] = 0
            THEN calls[c].promise.value = C6_Rows(c)
            ELSE C6_Envelope(c)

C6_Witness ==
    \E c \in Slots :
        /\ FoundCase(c)
        /\ "default" \in DOMAIN C5_Paginate(c)
        /\ "total" \in DOMAIN calls[c].promise.value
        /\ calls[c].promise.value.total = 3
        /\ calls[c].promise.value.skip = 2
        /\ Len(calls[c].promise.value.data.array) = 2

\* The rows a find call resolved with, bare or in an envelope.
C7_Rows(c) ==
    IF "data" \in DOMAIN calls[c].promise.value
    THEN calls[c].promise.value.data.array
    ELSE calls[c].promise.value.array

C7_Selected(c) ==
    {calls[c].params.query["$select"][i] :
        i \in 1..Len(calls[c].params.query["$select"])}

\* C7: when $select is present in a find query, the result has as many rows as
\* the store returned and each row holds exactly the selected fields that the
\* stored row has, with their stored values.
C7_Projection ==
    \A c \in Slots :
        (FoundCase(c) /\ "$select" \in DOMAIN calls[c].params.query) =>
            LET raw == calls[c].ans.res.array
                rows == C7_Rows(c)
            IN  /\ Len(rows) = Len(raw)
                /\ \A i \in 1..Len(raw) :
                      rows[i] = [k \in DOMAIN raw[i] \cap C7_Selected(c) |-> raw[i][k]]

\* The native consistency the store is to get for a query's $consistency.
C8_Native(y) ==
    IF y = {[str |-> "NOT_BOUNDED"]} THEN {"N1QL.NOT_BOUNDED"}
    ELSE IF y = {[str |-> "REQUEST_PLUS"]} THEN {"N1QL.REQUEST_PLUS"}
    ELSE IF y = {[str |-> "STATEMENT_PLUS"]} THEN {"N1QL.STATEMENT_PLUS"}
    ELSE {}

\* C8: a find whose $consistency is NOT_BOUNDED, REQUEST_PLUS or STATEMENT_PLUS
\* passes the same-named native consistency to the store and resolves; an
\* omitted or unrecognized $consistency sets none; $consistency is removed from
\* the query before compilation and the statement is marked read-only.
C8_Consistency ==
    \A c \in Slots :
        (FindCase(c) /\ Len(calls[c].issued) = 1) =>
            LET y == Field(calls[c].params.query, "$consistency")
            IN  /\ calls[c].issued[1].n1ql.readonly = TRUE
                /\ calls[c].issued[1].n1ql.consistency = C8_Native(y)
                /\ "$consistency" \notin DOMAIN calls[c].obj.interpreted
                /\ calls[c].pc # "query" =>
                      /\ calls[c].pc = "done"
                      /\ calls[c].promise.status = "resolved"

C8_Witness ==
    \E c \in Slots :
        /\ FoundCase(c)
        /\ Field(calls[c].params.query, "$consistency") = {[str |-> "REQUEST_PLUS"]}
        /\ calls[c].issued[1].n1ql.consistency = {"N1QL.REQUEST_PLUS"}

\* C9: get(id) settles once, with NotFound when the store reports a missing
\* key or returns an empty result for key name+separator+id, with the store's
\* own error for any other store error, and with the stored entity otherwise.
C9_GetOutcome ==
    \A c \in Slots :
        calls[c].op = "get" =>
            LET key == name \o separator \o calls[c].id
                a == calls[c].ans
            IN  /\ calls[c].issued = <<[kind |-> "get", key |-> key]>>
                /\ calls[c].pc = "get" => calls[c].promise.status = "pending"
                /\ calls[c].pc # "get" =>
                      /\ calls[c].pc = "done"
                      /\ IF \/ a.err = [error |-> "CouchbaseError", code |-> "keyNotFound"]
                            \/ (a.err = Null /\ a.res = Null)
                         THEN calls[c].promise = [status |-> "rejected", value |-> NotFound]
                         ELSE IF a.err # Null
                         THEN calls[c].promise = [status |-> "rejected", value |-> a.err]
                         ELSE /\ key \in DOMAIN store
                              /\ calls[c].promise = [status |-> "resolved", value |-> store[key]]

C9_Witness ==
    \E c \in Slots :
        /\ calls[c].op = "get"
        /\ calls[c].pc = "done"
        /\ _key(calls[c].id) \in DOMAIN store
        /\ calls[c].promise = [status |-> "rejected", value |-> CouchbaseError(networkError)]

\* C10: remove(id) for an id with no stored entity fails with NotFound, issues
\* no remove request to the store, and leaves the store unchanged.
C10_RemoveMissing ==
    \A c \in Slots :
        (calls[c].op = "remove" /\ calls[c].pre = Null) =>
            /\ \A i \in 1..Len(calls[c].issued) : calls[c].issued[i].kind # "remove"
            /\ store = calls[c].before
            /\ calls[c].pc # "get1" =>
                  /\ calls[c].pc = "done"
                  /\ calls[c].promise = [status |-> "rejected", value |-> NotFound]

C10_Witness ==
    \E c \in Slots :
        /\ calls[c].op = "remove"
        /\ calls[c].pre = Null
        /\ calls[c].pc = "done"
        /\ DOMAIN store # {}

\* The entity the first get of a call read, once it has been answered with one.
FirstRead(c) == calls[c].answers[1].res.value

\* C11: remove(id) for an existing id resolves with the removed entity, the
\* entity as read by the initial get before deletion.
C11_RemoveResolvesEntity ==
    \A c \in Slots :
        (calls[c].op = "remove" /\ calls[c].pre # Null /\ calls[c].pc = "done") =>
            calls[c].promise = [status |-> "resolved", value |-> FirstRead(c)]

\* C12: patch(id, data) and update(id, data) for an id with no stored entity
\* fail with NotFound, issue no replace to the store, and leave the store
\* unchanged.
C12_WriteMissing ==
    \A c \in Slots :
        (calls[c].op \in {"patch", "update"} /\ calls[c].pre = Null) =>
            /\ \A i \in 1..Len(calls[c].issued) : calls[c].issued[i].kind # "replace"
            /\ store = calls[c].before
            /\ calls[c].pc # "get1" =>
                  /\ calls[c].pc = "done"
                  /\ calls[c].promise = [status |-> "rejected", value |-> NotFound]

\* The errors, other than missing-key, with which the bucket failed an insert,
\* a replace or a query of the call.
WriteErrors(c) ==
    { calls[c].answers[i].err : i \in
        { j \in 1..Len(calls[c].answers) :
            /\ calls[c].issued[j].kind \in {"insert", "replace", "query"}
            /\ calls[c].answers[j].err # Null
            /\ calls[c].answers[j].err.code # keyNotFound } }

\* C13: when the bucket fails an insert (in create), a replace (in patch or
\* update) or a query (in find) with an error other than missing-key, the
\* operation fails with that same error and never resolves.
C13_ErrorPassThrough ==
    \A c \in Slots :
        \A e \in WriteErrors(c) :
            /\ calls[c].promise.status # "resolved"
            /\ calls[c].pc \in {"done", "hung"} =>
                  /\ calls[c].pc = "done"
                  /\ calls[c].promise = [status |-> "rejected", value |-> e]

\* The requests patch(id, data) issues, in order, when its first get read base.
C14_PatchRequests(id, data, base) ==
    << [kind |-> "get", key |-> _key(id)],
       [kind |-> "replace", key |-> _key(id), value |-> Merged(base, data)],
       [kind |-> "get", key |-> _key(id)] >>

\* A call that goes as patch(id, data) goes on the same answers of the bucket:
\* the same requests in the same order, and once the last get is answered the
\* outcome of that get.
C14_AsPatch(c) ==
    LET n == Len(calls[c].answers)
        got == n > 0 /\ GetCallback(calls[c].answers[1].err,
                                    calls[c].answers[1].res).promise.status = "resolved"
    IN  /\ IF got
           THEN calls[c].issued =
                   SubSeq(C14_PatchRequests(calls[c].id, calls[c].data, FirstRead(c)),
                          1, Len(calls[c].issued))
           ELSE calls[c].issued = <<[kind |-> "get", key |-> _key(calls[c].id)]>>
        /\ n < 3 => calls[c].promise.status = "pending"
        /\ n = 3 =>
              /\ calls[c].pc = "done"
              /\ calls[c].promise =
                    GetCallback(calls[c].answers[3].err, calls[c].answers[3].res).promise

\* C14: update is an alias of patch: update(id, data) issues the same store
\* requests, leaves the same store state and settles with the same outcome as
\* patch(id, data); keys of the stored entity not in data are preserved.
C14_UpdateIsPatch ==
    \A c \in Slots : calls[c].op = "update" => C14_AsPatch(c)

\* Two patches of the same id that both read the entity B, each changing it,
\* and both had their replace answered: B was read by both before either
\* replace was executed.
C15_Race(c, d) ==
    /\ c # d
    /\ calls[c].op = "patch" /\ calls[d].op = "patch"
    /\ calls[c].id = calls[d].id
    /\ Len(calls[c].answers) >= 2 /\ Len(calls[d].answers) >= 2
    /\ FirstRead(c) = FirstRead(d)
    /\ C2_Expected(FirstRead(c), calls[c].data) # FirstRead(c)
    /\ C2_Expected(FirstRead(d), calls[d].data) # FirstRead(d)

\* C15: two concurrent patches of the same id can both read the same base
\* entity before either replace; the replace executed last wins, so the stored
\* entity is the merge of one patch's data over the base and lacks the other's,
\* and both calls resolve with no error reported.
C15_LostUpdate ==
    \A c, d \in Slots :
        C15_Race(c, d) =>
            LET key == name \o separator \o calls[c].id
                B == FirstRead(c)
            IN  /\ key \in DOMAIN store
                /\ store[key] \in {C2_Expected(B, calls[c].data),
                                   C2_Expected(B, calls[d].data)}
                /\ calls[c].answers[2].err = Null
                /\ calls[c].pc \in {"get2", "done"}
                /\ calls[c].pc = "done" =>
                      /\ calls[c].promise.status = "resolved"
                      /\ calls[c].promise.value \in {C2_Expected(B, calls[c].data),
                                                     C2_Expected(B, calls[d].data)}

C15_Witness ==
    \E c, d \in Slots :
        /\ C15_Race(c, d)
        /\ calls[c].pc = "done" /\ calls[d].pc = "done"
        /\ calls[c].promise.status = "resolved" /\ calls[d].promise.status = "resolved"
        /\ store[_key(calls[c].id)] = C2_Expected(FirstRead(c), calls[d].data)
        /\ \E k \in DOMAIN calls[c].data : k \notin DOMAIN store[_key(calls[c].id)]

\* C16: remove(id) for an existing id deletes exactly the entity stored at key
\* name+separator+id and leaves every other key unchanged, whatever calls of
\* create, patch and update came before.
C16_RemoveFrame ==
    \A c \in Slots :
        (calls[c].op = "remove" /\ calls[c].pre # Null /\ calls[c].pc = "done") =>
            store = Without(calls[c].before, name \o separator \o calls[c].id)

\* The kinds of the requests a call has issued, in order.
C17_Kinds(c) == [i \in 1..Len(calls[c].issued) |-> calls[c].issued[i].kind]

\* The order of the requests of an operation.
C17_Order(op) ==
    IF op \in {"patch", "update"} THEN <<"get", "replace", "get">>
    ELSE IF op = "create" THEN <<"insert", "get">>
    ELSE IF op = "remove" THEN <<"get", "remove">>
    ELSE IF op = "get" THEN <<"get">>
    ELSE <<"query">>

\* C17: within one call the requests to the store are strictly sequential: in
\* patch get, replace, get and in create insert, get; a request is issued only
\* after the answer to the one before it has arrived, and the call settles only
\* after its last request is answered.
C17_Sequential ==
    \A c \in Slots :
        calls[c].op \in {"patch", "create"} =>
            LET nI == Len(calls[c].issued)
                nA == Len(calls[c].answers)
            IN  /\ nI <= Len(C17_Order(calls[c].op))
                /\ C17_Kinds(c) = SubSeq(C17_Order(calls[c].op), 1, nI)
                /\ nA \in {nI - 1, nI} /\ nA >= 0
                /\ (calls[c].req # NoReq) <=> (nA = nI - 1)
                /\ calls[c].promise.status # "pending" => nA = nI
                /\ calls[c].promise.status = "resolved" =>
                      nA = Len(C17_Order(calls[c].op))

C17_Witness ==
    \E c, d \in Slots :
        /\ calls[c].op = "patch" /\ calls[c].promise.status = "resolved"
        /\ Len(calls[c].answers) = 3
        /\ calls[d].op = "create" /\ calls[d].promise.status = "resolved"
        /\ Len(calls[d].answers) = 2

\* An entity as the service writes it: the id field set, _type the collection name.
C18_Managed(entity) ==
    /\ idField \in DOMAIN entity
    /\ "_type" \in DOMAIN entity
    /\ entity["_type"] = name

\* C18: in every reachable state, after any sequence and interleaving of
\* create, patch, update and remove calls, every entity the service has written
\* to the store has the id field set and _type equal to the collection name,
\* even when the caller's data carried another _type.
C18_ManagedFields ==
    /\ \A k \in DOMAIN store : C18_Managed(store[k])
    /\ \A c \in Slots :
          calls[c].req.kind \in {"insert", "replace"} => C18_Managed(calls[c].req.value)

C18_Witness ==
    \E c, d \in Slots :
        /\ calls[c].op = "create" /\ calls[c].pc = "done"
        /\ calls[c].data # Null /\ "_type" \in DOMAIN calls[c].data
        /\ calls[d].op \in {"patch", "update"} /\ calls[d].pc = "done"
        /\ calls[d].data # Null /\ "_type" \in DOMAIN calls[d].data
        /\ calls[d].promise.status = "resolved"
        /\ Cardinality(DOMAIN store) >= 2

\* C19: every call of a public operation settles, provided the store answers
\* every request it is given: a call with no request outstanding, which no
\* answer of the store can reach any more, is resolved or rejected.
C19_Settles ==
    \A c \in Slots :
        (calls[c].op # "none" /\ calls[c].req = NoReq) =>
            calls[c].promise.status # "pending"

====
